---- MODULE Spec2Model ----
(***************************************************************************)
(* img-bot: one invocation of main() loads the persisted archive cursor,   *)
(* resolves it against the three-level archive images/<series>/<volume>/   *)
(* <page>, re-encodes the page until it fits the upload budget, posts it   *)
(* and, after the post, saves the advanced cursor.                         *)
(*                                                                         *)
(* Representation.  A directory is the sorted listing the code reads: the  *)
(* archive is a sequence of series, a series a sequence of volumes, and a  *)
(* volume is its number of pages.  JavaScript arrays are 0-based, TLA+     *)
(* sequences 1-based: Nth models `array[i]`, undefined outside the array.  *)
(* An optional value is a sequence of length 0 (undefined) or 1.           *)
(* Scale factors are in hundredths (0.9 is 90, 0.04 is 4, 0.2 is 20).      *)
(***************************************************************************)
EXTENDS Integers, Sequences, FiniteSets, TLC

VARIABLES
    archive,     \* the directory tree under ARCHIVE_ROOT (static)
    cursorFile,  \* archiveCursor.json: <<index>>, or <<>> when missing/unreadable
    env,         \* JPG_QUALITY and RESIZE_STEP as read at module load
    run,         \* per invocation of main(): its position and locals
    fn,          \* a direct application of makeNextIndex: arguments and result
    trail        \* the cursors visited by repeated resolve-and-advance

vars == <<archive, cursorFile, env, run, fn, trail>>

----------------------------------------------------------------------------
(* Bounds *)

\* directories (series plus volumes) in an archive
MaxDirs == 4
\* pages in a volume; cursor components range over -1..MaxPages
MaxPages == 2
\* buffer sizes range over MAX_SIZE - SizeSlack .. MAX_SIZE + SizeSlack
SizeSlack == 1
\* the passes of the degrade loop are counted modulo MaxIterations + 1
MaxIterations == 40
\* series directories in the archives of SpecCatalog
MaxSeries == 5

----------------------------------------------------------------------------
(* Program constants *)

MAX_SIZE == 976 * 1024

resizeFactorStart == 90
resizeFactorFloor == 20
jpgQualityFloor == 50
jpgQualityStep == 4
jpgQualityDefault == 89
resizeStepDefault == 4

----------------------------------------------------------------------------
(* Data *)

ArchiveIndex(s, v, p) == [series |-> s, volume |-> v, page |-> p]

ZeroIndex == ArchiveIndex(0, 0, 0)

SequenceMetadata(lp, lv, ls) ==
    [isLastPageInVolume |-> lp, isLastVolumeInSeries |-> lv, isLastSeries |-> ls]

CursorValues == (-1)..MaxPages

Cursors == {ArchiveIndex(s, v, p) : s \in CursorValues, v \in CursorValues, p \in CursorValues}

Flags == {SequenceMetadata(lp, lv, ls) : lp \in BOOLEAN, lv \in BOOLEAN, ls \in BOOLEAN}

\* every series with exactly k volumes
SeriesWith(k) == [1..k -> 0..MaxPages]

\* every archive of n series that has at most b volumes in all
RECURSIVE ArchivesOf(_, _)
ArchivesOf(n, b) ==
    IF n = 0 THEN {<<>>}
    ELSE UNION {{Append(a, sh) : a \in ArchivesOf(n - 1, b - k), sh \in SeriesWith(k)} : k \in 0..b}

Archives == UNION {ArchivesOf(n, MaxDirs - n) : n \in 0..MaxDirs}

Sizes == (MAX_SIZE - SizeSlack)..(MAX_SIZE + SizeSlack)

\* array[i] of JavaScript: <<element>>, or <<>> for undefined
Nth(array, i) == IF i \in 0..(Len(array) - 1) THEN <<array[i + 1]>> ELSE <<>>

----------------------------------------------------------------------------
(* loadImageAtIndex: the bounds checks, the flags and the metadata *)

seriesOutOfBounds(index, seriesPaths) == index.series >= Len(seriesPaths)

\* a bug: the bound compared with > for >=
volumeOutOfBoundsStrict(index, volumePaths) == index.volume > Len(volumePaths)

volumeOutOfBounds(index, volumePaths) == index.volume >= Len(volumePaths)

pageOutOfBounds(index, imagePaths) == index.page >= Len(imagePaths)

\* the file names a volume directory lists, in sorted order
loadImagePaths(volume) == [i \in 1..volume |-> i]

\* a bug: the last page taken to be at the listing's length
sequenceOfOffByOne(index, seriesPaths, volumePaths, imagePaths) ==
    SequenceMetadata(index.page = Len(imagePaths),
                     index.volume = Len(volumePaths) - 1,
                     index.series = Len(seriesPaths) - 1)

sequenceOf(index, seriesPaths, volumePaths, imagePaths) ==
    SequenceMetadata(index.page = Len(imagePaths) - 1,
                     index.volume = Len(volumePaths) - 1,
                     index.series = Len(seriesPaths) - 1)

NoSequence == SequenceMetadata(FALSE, FALSE, FALSE)

SERIES_NAMES ==
    <<"The Original Bondage Fairies", "Bondage Fairies Extreme",
      "Bondage Fairies Fairie Fetish", "New Bondage Fairies">>

\* meta of the image loaded at index; seriesName is undefined (<<>>) where
\* SERIES_NAMES has no entry at index.series
PostMetadata(index) ==
    [seriesName |-> Nth(SERIES_NAMES, index.series),
     volumeNumber |-> index.volume + 1,
     pageNumber |-> index.page + 1]

NoMeta == [seriesName |-> <<>>, volumeNumber |-> 0, pageNumber |-> 0]

\* loadImageAtIndex against a tree whose directories and images all read:
\* the error it throws, or "" and the flags it returns
loadImageAtIndex(tree, index) ==
    LET seriesPath == Nth(tree, index.series)
        volumePaths == IF seriesPath = <<>> THEN <<>> ELSE seriesPath[1]
        volumePath == Nth(volumePaths, index.volume)
        imagePaths == IF volumePath = <<>> THEN <<>> ELSE loadImagePaths(volumePath[1])
        failure ==
            IF seriesOutOfBounds(index, tree) THEN "series out of bounds"
            ELSE IF seriesPath = <<>> THEN "read volume paths"
            ELSE IF volumeOutOfBounds(index, volumePaths) THEN "volume out of bounds"
            ELSE IF volumePath = <<>> THEN "read image paths"
            ELSE IF pageOutOfBounds(index, imagePaths) THEN "page out of bounds"
            ELSE IF Nth(imagePaths, index.page) = <<>> THEN "image read"
            ELSE ""
    IN  [error |-> failure,
         meta |-> IF failure = "" THEN PostMetadata(index) ELSE NoMeta,
         sequence |-> IF failure = "" THEN sequenceOf(index, tree, volumePaths, imagePaths)
                      ELSE NoSequence]

----------------------------------------------------------------------------
(* makeNextIndex *)

\* a bug: the page is advanced only when the other flags are clear
makeNextIndexPageGuarded(currentIndex, sequence) ==
    IF sequence.isLastPageInVolume
    THEN IF sequence.isLastVolumeInSeries
         THEN IF sequence.isLastSeries
              THEN ArchiveIndex(0, 0, 0)
              ELSE ArchiveIndex(currentIndex.series + 1, 0, 0)
         ELSE ArchiveIndex(currentIndex.series, currentIndex.volume + 1, 0)
    ELSE IF sequence.isLastVolumeInSeries /\ sequence.isLastSeries
         THEN currentIndex
         ELSE ArchiveIndex(currentIndex.series, currentIndex.volume, currentIndex.page + 1)

\* a bug: the volume carry does not reset the page
makeNextIndexPageKept(currentIndex, sequence) ==
    IF sequence.isLastPageInVolume
    THEN IF sequence.isLastVolumeInSeries
         THEN IF sequence.isLastSeries
              THEN ArchiveIndex(0, 0, 0)
              ELSE ArchiveIndex(currentIndex.series + 1, 0, 0)
         ELSE ArchiveIndex(currentIndex.series, currentIndex.volume + 1, currentIndex.page)
    ELSE ArchiveIndex(currentIndex.series, currentIndex.volume, currentIndex.page + 1)

\* a bug: the series carry does not reset the volume
makeNextIndexVolumeKept(currentIndex, sequence) ==
    IF sequence.isLastPageInVolume
    THEN IF sequence.isLastVolumeInSeries
         THEN IF sequence.isLastSeries
              THEN ArchiveIndex(0, 0, 0)
              ELSE ArchiveIndex(currentIndex.series + 1, currentIndex.volume, 0)
         ELSE ArchiveIndex(currentIndex.series, currentIndex.volume + 1, 0)
    ELSE ArchiveIndex(currentIndex.series, currentIndex.volume, currentIndex.page + 1)

\* a bug: the last series carries on instead of wrapping
makeNextIndexNoWrap(currentIndex, sequence) ==
    IF sequence.isLastPageInVolume
    THEN IF sequence.isLastVolumeInSeries
         THEN ArchiveIndex(currentIndex.series + 1, 0, 0)
         ELSE ArchiveIndex(currentIndex.series, currentIndex.volume + 1, 0)
    ELSE ArchiveIndex(currentIndex.series, currentIndex.volume, currentIndex.page + 1)

makeNextIndex(currentIndex, sequence) ==
    IF sequence.isLastPageInVolume
    THEN IF sequence.isLastVolumeInSeries
         THEN IF sequence.isLastSeries
              THEN ArchiveIndex(0, 0, 0)
              ELSE ArchiveIndex(currentIndex.series + 1, 0, 0)
         ELSE ArchiveIndex(currentIndex.series, currentIndex.volume + 1, 0)
    ELSE ArchiveIndex(currentIndex.series, currentIndex.volume, currentIndex.page + 1)

----------------------------------------------------------------------------
(* scaleImageIfNeeded *)

Buffer(o, n) == [origin |-> o, size |-> n]

NoBuffer == Buffer("none", 0)

\* a bug: a buffer of exactly MAX_SIZE bytes taken to be too large
fitsBudgetStrict(buffer) == buffer.size < MAX_SIZE

fitsBudget(buffer) == buffer.size <= MAX_SIZE

----------------------------------------------------------------------------
(* main: the locals of one invocation, and what each await leaves in them *)

FreshRun ==
    [pc |-> "login", currentIndex |-> ZeroIndex,
     seriesPaths |-> <<>>, volumePaths |-> <<>>, imagePaths |-> <<>>,
     sequence |-> NoSequence, source |-> NoBuffer, buffer |-> NoBuffer,
     resizeFactor |-> 0, jpgQuality |-> 0, iterations |-> 0,
     meta |-> NoMeta, posted |-> FALSE, error |-> ""]

\* an uncaught rejection or Deno.exit(1): the invocation is over. Its locals
\* are kept as they were when it ended, for the claims to read.
Throw(r, e) == [r EXCEPT !.pc = "failed", !.error = e]

\* what Deno.readDir can answer for a directory: its listing, or an error
\* (always an error for the path built from an undefined name)
readDir(dir) == IF dir = <<>> THEN {<<>>} ELSE {dir, <<>>}

\* bot.login resolves or rejects (a missing BLUESKY_USERNAME or
\* BLUESKY_PASSWORD ends the program before main, as a rejected login does)
afterLogin(r, ok) == IF ok THEN [r EXCEPT !.pc = "loadIndex"] ELSE Throw(r, "login")

loadArchiveIndex(r, file) ==
    IF file = <<>> THEN Throw(r, "cursor load")
    ELSE [r EXCEPT !.pc = "listSeries", !.currentIndex = file[1]]

afterSeriesPaths(r, listing) ==
    IF listing = <<>> THEN Throw(r, "read series paths")
    ELSE IF seriesOutOfBounds(r.currentIndex, listing[1]) THEN Throw(r, "series out of bounds")
    ELSE [r EXCEPT !.pc = "listVolumes", !.seriesPaths = listing[1]]

afterVolumePaths(r, listing) ==
    IF listing = <<>> THEN Throw(r, "read volume paths")
    ELSE IF volumeOutOfBounds(r.currentIndex, listing[1]) THEN Throw(r, "volume out of bounds")
    ELSE [r EXCEPT !.pc = "listImages", !.volumePaths = listing[1]]

afterImagePaths(r, listing) ==
    IF listing = <<>> THEN Throw(r, "read image paths")
    ELSE LET imagePaths == loadImagePaths(listing[1]) IN
         IF pageOutOfBounds(r.currentIndex, imagePaths) THEN Throw(r, "page out of bounds")
         ELSE [r EXCEPT !.pc = "readImage", !.imagePaths = imagePaths,
                        !.sequence = sequenceOf(r.currentIndex, r.seriesPaths,
                                                r.volumePaths, imagePaths)]

\* a bug: missing dimensions logged and the run carried on
getImageDataAndAspectLogged(r, image, cfg) ==
    IF Nth(r.imagePaths, r.currentIndex.page) = <<>> THEN Throw(r, "image read")
    ELSE IF image = <<>> THEN [r EXCEPT !.pc = "post", !.error = "image dimensions"]
    ELSE LET buffer == Buffer("source", image[1]) IN
         IF fitsBudget(buffer)
         THEN [r EXCEPT !.pc = "post", !.source = buffer, !.buffer = buffer]
         ELSE [r EXCEPT !.pc = "encode", !.source = buffer,
                        !.resizeFactor = resizeFactorStart,
                        !.jpgQuality = cfg.jpgQualityStart]

\* getImageDataAndAspect up to the first pass of scaleImageIfNeeded.
\* image: <<size>> of the decoded file, <<>> when it has no dimensions
getImageDataAndAspect(r, image, cfg) ==
    IF Nth(r.imagePaths, r.currentIndex.page) = <<>> THEN Throw(r, "image read")
    ELSE IF image = <<>> THEN Throw(r, "image dimensions")
    ELSE LET buffer == Buffer("source", image[1]) IN
         IF fitsBudget(buffer)
         THEN [r EXCEPT !.pc = "post", !.source = buffer, !.buffer = buffer]
         ELSE [r EXCEPT !.pc = "encode", !.source = buffer,
                        !.resizeFactor = resizeFactorStart,
                        !.jpgQuality = cfg.jpgQualityStart]

\* the re-encode that opens a pass of the while loop, counted
reencoded(r) == [r EXCEPT !.iterations = (@ + 1) % (MaxIterations + 1)]

\* a bug: the scale lowered for as long as it is positive
scaleImageIfNeededNoFloor(r, size, cfg) ==
    LET output == Buffer("jpeg", size)
        pass == reencoded(r)
    IN  IF fitsBudget(output) THEN [pass EXCEPT !.pc = "post", !.buffer = output]
        ELSE IF r.resizeFactor > 0
             THEN [pass EXCEPT !.resizeFactor = @ - cfg.resizeStep]
        ELSE IF r.jpgQuality > jpgQualityFloor
             THEN [pass EXCEPT !.jpgQuality = @ - jpgQualityStep]
        ELSE [pass EXCEPT !.pc = "post", !.buffer = output]

\* a bug: the loop given up at the scale floor, the quality never lowered
scaleImageIfNeededScaleOnly(r, size, cfg) ==
    LET output == Buffer("jpeg", size)
        pass == reencoded(r)
    IN  IF fitsBudget(output) THEN [pass EXCEPT !.pc = "post", !.buffer = output]
        ELSE IF r.resizeFactor > resizeFactorFloor
             THEN [pass EXCEPT !.resizeFactor = @ - cfg.resizeStep]
        ELSE [pass EXCEPT !.pc = "post", !.buffer = output]

\* a bug: the quality lowered along with the scale
scaleImageIfNeededBoth(r, size, cfg) ==
    LET output == Buffer("jpeg", size)
        pass == reencoded(r)
    IN  IF fitsBudget(output) THEN [pass EXCEPT !.pc = "post", !.buffer = output]
        ELSE IF r.resizeFactor > resizeFactorFloor
             THEN [pass EXCEPT !.resizeFactor = @ - cfg.resizeStep,
                               !.jpgQuality = @ - jpgQualityStep]
        ELSE IF r.jpgQuality > jpgQualityFloor
             THEN [pass EXCEPT !.jpgQuality = @ - jpgQualityStep]
        ELSE [pass EXCEPT !.pc = "post", !.buffer = output]

\* one pass of the while loop of scaleImageIfNeeded; size: what sharp produced
scaleImageIfNeeded(r, size, cfg) ==
    LET output == Buffer("jpeg", size)
        pass == reencoded(r)
    IN  IF fitsBudget(output) THEN [pass EXCEPT !.pc = "post", !.buffer = output]
        ELSE IF r.resizeFactor > resizeFactorFloor
             THEN [pass EXCEPT !.resizeFactor = @ - cfg.resizeStep]
        ELSE IF r.jpgQuality > jpgQualityFloor
             THEN [pass EXCEPT !.jpgQuality = @ - jpgQualityStep]
        ELSE [pass EXCEPT !.pc = "post", !.buffer = output]

\* the return of loadImageAtIndex, once the buffer is there: meta is built
LoadedLabeledImage(r) ==
    IF r.pc = "post" THEN [r EXCEPT !.meta = PostMetadata(r.currentIndex)] ELSE r

\* a bug: the rejection of bot.post caught and the run carried on
afterPostSwallowed(r, ok) == [r EXCEPT !.pc = "save", !.posted = ok]

afterPost(r, ok) ==
    IF ok THEN [r EXCEPT !.pc = "save", !.posted = TRUE] ELSE Throw(r, "post")

\* what Deno.writeTextFileSync can do: write the file, fail before it touches
\* it, or fail after it has emptied it
WriteOutcomes == {"written", "refused", "truncated"}

\* a bug: the index the file holds advanced, for the index the run posted
saveArchiveIndexOfFile(r, file, outcome) ==
    CASE outcome = "written" ->
             IF file = <<>> THEN <<makeNextIndex(r.currentIndex, r.sequence)>>
             ELSE <<makeNextIndex(file[1], r.sequence)>>
      [] outcome = "refused" -> file
      [] outcome = "truncated" -> <<>>

\* saveArchiveIndex(makeNextIndex(currentIndex, sequence)): the file it leaves
saveArchiveIndex(r, file, outcome) ==
    CASE outcome = "written" -> <<makeNextIndex(r.currentIndex, r.sequence)>>
      [] outcome = "refused" -> file
      [] outcome = "truncated" -> <<>>

afterSave(r, outcome) ==
    IF outcome = "written" THEN [r EXCEPT !.pc = "done"] ELSE Throw(r, "cursor save")

----------------------------------------------------------------------------
(* Actions of an invocation p *)

Login(p) ==
    /\ run[p].pc = "login"
    /\ \E ok \in BOOLEAN : run' = [run EXCEPT ![p] = afterLogin(@, ok)]
    /\ UNCHANGED <<archive, cursorFile, env, fn, trail>>

LoadIndex(p) ==
    /\ run[p].pc = "loadIndex"
    /\ run' = [run EXCEPT ![p] = loadArchiveIndex(@, cursorFile)]
    /\ UNCHANGED <<archive, cursorFile, env, fn, trail>>

ListSeries(p) ==
    /\ run[p].pc = "listSeries"
    /\ \E listing \in readDir(<<archive>>) :
          run' = [run EXCEPT ![p] = afterSeriesPaths(@, listing)]
    /\ UNCHANGED <<archive, cursorFile, env, fn, trail>>

ListVolumes(p) ==
    /\ run[p].pc = "listVolumes"
    /\ \E listing \in readDir(Nth(run[p].seriesPaths, run[p].currentIndex.series)) :
          run' = [run EXCEPT ![p] = afterVolumePaths(@, listing)]
    /\ UNCHANGED <<archive, cursorFile, env, fn, trail>>

ListImages(p) ==
    /\ run[p].pc = "listImages"
    /\ \E listing \in readDir(Nth(run[p].volumePaths, run[p].currentIndex.volume)) :
          run' = [run EXCEPT ![p] = afterImagePaths(@, listing)]
    /\ UNCHANGED <<archive, cursorFile, env, fn, trail>>

ReadImage(p) ==
    /\ run[p].pc = "readImage"
    /\ \E image \in {<<>>} \cup {<<n>> : n \in Sizes} :
          run' = [run EXCEPT ![p] = LoadedLabeledImage(getImageDataAndAspect(@, image, env))]
    /\ UNCHANGED <<archive, cursorFile, env, fn, trail>>

Encode(p) ==
    /\ run[p].pc = "encode"
    /\ \E size \in Sizes :
          run' = [run EXCEPT ![p] = LoadedLabeledImage(scaleImageIfNeeded(@, size, env))]
    /\ UNCHANGED <<archive, cursorFile, env, fn, trail>>

Post(p) ==
    /\ run[p].pc = "post"
    /\ \E ok \in BOOLEAN : run' = [run EXCEPT ![p] = afterPost(@, ok)]
    /\ UNCHANGED <<archive, cursorFile, env, fn, trail>>

Save(p) ==
    /\ run[p].pc = "save"
    /\ \E outcome \in WriteOutcomes :
          /\ cursorFile' = saveArchiveIndex(run[p], cursorFile, outcome)
          /\ run' = [run EXCEPT ![p] = afterSave(@, outcome)]
    /\ UNCHANGED <<archive, env, fn, trail>>

\* the next scheduled invocation of the program
NewRun(p) ==
    /\ run[p].pc \in {"done", "failed"}
    /\ run' = [run EXCEPT ![p] = FreshRun]
    /\ UNCHANGED <<archive, cursorFile, env, fn, trail>>

----------------------------------------------------------------------------
(* Spec: invocations of main, one after the other, on a static archive *)

DefaultEnv == [jpgQualityStart |-> jpgQualityDefault, resizeStep |-> resizeStepDefault]

NoFn == [index |-> ZeroIndex, sequence |-> NoSequence, result |-> <<>>]

Init ==
    /\ archive \in Archives
    /\ cursorFile \in {<<>>} \cup {<<c>> : c \in Cursors}
    /\ env = DefaultEnv
    /\ run = [p \in {1} |-> FreshRun]
    /\ fn = NoFn
    /\ trail = <<>>

Next ==
    \/ \E p \in DOMAIN run : Login(p)
    \/ \E p \in DOMAIN run : LoadIndex(p)
    \/ \E p \in DOMAIN run : ListSeries(p)
    \/ \E p \in DOMAIN run : ListVolumes(p)
    \/ \E p \in DOMAIN run : ListImages(p)
    \/ \E p \in DOMAIN run : ReadImage(p)
    \/ \E p \in DOMAIN run : Encode(p)
    \/ \E p \in DOMAIN run : Post(p)
    \/ \E p \in DOMAIN run : Save(p)
    \/ \E p \in DOMAIN run : NewRun(p)

Spec == Init /\ [][Next]_vars

\* the invocation has read the cursor
HasIndex(r) ==
    /\ r.pc \notin {"login", "loadIndex"}
    /\ ~(r.pc = "failed" /\ r.error \in {"login", "cursor load"})

\* loadImageAtIndex has returned to main
Resolved(r) ==
    \/ r.pc \in {"post", "save", "done"}
    \/ r.pc = "failed" /\ r.error \in {"post", "cursor save"}

RunStates ==
    {"login", "loadIndex", "listSeries", "listVolumes", "listImages", "readImage",
     "encode", "post", "save", "done", "failed"}

Errors ==
    {"", "login", "cursor load", "read series paths", "series out of bounds",
     "read volume paths", "volume out of bounds", "read image paths",
     "page out of bounds", "image read", "image dimensions", "post", "cursor save"}

IsIndex(i) == DOMAIN i = {"series", "volume", "page"} /\ \A k \in DOMAIN i : i[k] \in Int

IsBuffer(b) == b = NoBuffer \/ (b.origin \in {"source", "jpeg"} /\ b.size \in Sizes)

TypeOK ==
    /\ archive \in Archives
    /\ Len(cursorFile) <= 1 /\ \A k \in 1..Len(cursorFile) : IsIndex(cursorFile[k])
    /\ env = DefaultEnv
    /\ \A p \in DOMAIN run :
           /\ run[p].pc \in RunStates
           /\ run[p].error \in Errors
           /\ (run[p].pc = "failed") = (run[p].error # "")
           /\ IsIndex(run[p].currentIndex)
           /\ run[p].seriesPaths \in {<<>>, archive}
           /\ run[p].sequence \in Flags
           /\ IsBuffer(run[p].source) /\ IsBuffer(run[p].buffer)
           /\ run[p].resizeFactor \in 0..resizeFactorStart
           /\ run[p].jpgQuality \in 0..jpgQualityDefault
           /\ run[p].iterations \in 0..MaxIterations
           /\ run[p].meta \in {NoMeta, PostMetadata(run[p].currentIndex)}
           /\ run[p].posted \in BOOLEAN

\* The steps of an invocation and the operator loadImageAtIndex are two
\* renderings of the same function: where no directory failed to list and the
\* image decoded, they end alike.
ResolveAgrees ==
    \A p \in DOMAIN run :
        LET r == run[p]
            whole == loadImageAtIndex(archive, r.currentIndex)
        IN  /\ Resolved(r) =>
                   (whole.error = "" /\ whole.sequence = r.sequence /\ whole.meta = r.meta)
            /\ (r.pc = "failed" /\ r.error \in {"series out of bounds", "volume out of bounds",
                                               "page out of bounds", "image read"})
                   => whole.error = r.error

----------------------------------------------------------------------------
(* SpecEncoder: invocations on a two-page archive under every configuration *)
(* of JPG_QUALITY and RESIZE_STEP. A loop that has been entered keeps being *)
(* run: the process has nothing else to do while it awaits sharp.           *)

\* RESIZE_STEP in hundredths: "0", unset (0.04), "0.25"
ResizeSteps == {0, resizeStepDefault, 25}

\* JPG_QUALITY: "50", unset (89), "100"
JpgQualities == {jpgQualityFloor, jpgQualityDefault, 100}

Envs == {[jpgQualityStart |-> q, resizeStep |-> s] : q \in JpgQualities, s \in ResizeSteps}

InitEncoder ==
    /\ archive = <<<<2>>>>
    /\ cursorFile = <<ZeroIndex>>
    /\ env \in Envs
    /\ run = [p \in {1} |-> FreshRun]
    /\ fn = NoFn
    /\ trail = <<>>

SpecEncoder == InitEncoder /\ [][Next]_vars /\ WF_vars(\E p \in DOMAIN run : Encode(p))

----------------------------------------------------------------------------
(* SpecOverlap: two invocations of main started against the same cursor     *)
(* file, their awaits interleaved in every order; nothing in main or in the *)
(* cursor store keeps one from running while the other does. The file      *)
(* holds {0,0,0} when they are started; trail keeps that starting cursor.   *)

\* one series of two volumes, of two pages and of one page
OverlapArchive == <<<<2, 1>>>>

InitOverlap ==
    /\ archive = OverlapArchive
    /\ cursorFile = <<ZeroIndex>>
    /\ env = DefaultEnv
    /\ run = [p \in {1, 2} |-> FreshRun]
    /\ fn = NoFn
    /\ trail = cursorFile

NextOverlap ==
    \/ \E p \in DOMAIN run : Login(p)
    \/ \E p \in DOMAIN run : LoadIndex(p)
    \/ \E p \in DOMAIN run : ListSeries(p)
    \/ \E p \in DOMAIN run : ListVolumes(p)
    \/ \E p \in DOMAIN run : ListImages(p)
    \/ \E p \in DOMAIN run : ReadImage(p)
    \/ \E p \in DOMAIN run : Encode(p)
    \/ \E p \in DOMAIN run : Post(p)
    \/ \E p \in DOMAIN run : Save(p)

SpecOverlap == InitOverlap /\ [][NextOverlap]_vars

----------------------------------------------------------------------------
(* SpecCatalog: invocations on archives of one to MaxSeries series, each of *)
(* one volume of one page, from a cursor at the first page of any series    *)

CatalogArchives == {[s \in 1..n |-> <<1>>] : n \in 1..MaxSeries}

InitCatalog ==
    /\ archive \in CatalogArchives
    /\ cursorFile \in {<<ArchiveIndex(s, 0, 0)>> : s \in 0..MaxSeries}
    /\ env = DefaultEnv
    /\ run = [p \in {1} |-> FreshRun]
    /\ fn = NoFn
    /\ trail = <<>>

SpecCatalog == InitCatalog /\ [][Next]_vars

----------------------------------------------------------------------------
(* SpecAdvance: makeNextIndex applied to every index and every flag triple *)

InitAdvance ==
    /\ archive = <<>>
    /\ cursorFile = <<>>
    /\ env = DefaultEnv
    /\ run = [p \in {} |-> FreshRun]
    /\ fn \in {[index |-> c, sequence |-> f, result |-> <<>>] : c \in Cursors, f \in Flags}
    /\ trail = <<>>

Advance ==
    /\ fn.result = <<>>
    /\ fn' = [fn EXCEPT !.result = <<makeNextIndex(fn.index, fn.sequence)>>]
    /\ UNCHANGED <<archive, cursorFile, env, run, trail>>

SpecAdvance == InitAdvance /\ [][Advance]_vars

----------------------------------------------------------------------------
(* SpecTraverse: from {0,0,0}, advance with the flags loadImageAtIndex     *)
(* derives for the current cursor, for as many steps as the archive has    *)
(* pages                                                                   *)

RECURSIVE Sum(_)
Sum(s) == IF s = <<>> THEN 0 ELSE s[1] + Sum(Tail(s))

RECURSIVE TotalPages(_)
TotalPages(tree) == IF tree = <<>> THEN 0 ELSE Sum(tree[1]) + TotalPages(Tail(tree))

InitTraverse ==
    /\ archive \in Archives
    /\ cursorFile = <<>>
    /\ env = DefaultEnv
    /\ run = [p \in {} |-> FreshRun]
    /\ fn = NoFn
    /\ trail = <<ZeroIndex>>

Traverse ==
    LET currentIndex == trail[Len(trail)]
        loaded == loadImageAtIndex(archive, currentIndex)
    IN  /\ Len(trail) <= TotalPages(archive)
        /\ loaded.error = ""
        /\ trail' = Append(trail, makeNextIndex(currentIndex, loaded.sequence))
        /\ UNCHANGED <<archive, cursorFile, env, run, fn>>

SpecTraverse == InitTraverse /\ [][Traverse]_vars

----------------------------------------------------------------------------
(* What the claims speak of, read off the archive itself *)

\* index is a valid index of tree
ValidIndex(tree, index) ==
    /\ index.series \in 0..(Len(tree) - 1)
    /\ index.volume \in 0..(Len(tree[index.series + 1]) - 1)
    /\ index.page \in 0..(tree[index.series + 1][index.volume + 1] - 1)

ValidIndices(tree) ==
    {i \in {ArchiveIndex(s, v, p) : s \in 0..MaxDirs, v \in 0..MaxDirs, p \in 0..MaxPages} :
        ValidIndex(tree, i)}

\* no series without a volume and no volume without a page
NoEmptyDirectory(tree) ==
    \A s \in 1..Len(tree) :
        /\ Len(tree[s]) > 0
        /\ \A v \in 1..Len(tree[s]) : tree[s][v] > 0

\* the outermost level at which index has a component >= the live count, or ""
OutOfBoundsLevel(tree, index) ==
    IF index.series >= Len(tree) THEN "series"
    ELSE IF index.series < 0 THEN ""
    ELSE IF index.volume >= Len(tree[index.series + 1]) THEN "volume"
    ELSE IF index.volume < 0 THEN ""
    ELSE IF index.page >= tree[index.series + 1][index.volume + 1] THEN "page"
    ELSE ""

----------------------------------------------------------------------------
(* C1 *)

\* C1: on a static archive of T pages, T resolve-and-advance steps from
\* {0,0,0} end at {0,0,0} and visit exactly the valid indices, each once.
C1_FullTraversalCycle ==
    LET T == TotalPages(archive)
        visited == {trail[i] : i \in 1..T}
    IN  Len(trail) = T + 1 =>
            /\ trail[T + 1] = ZeroIndex
            /\ visited = ValidIndices(archive)
            /\ Cardinality(visited) = T

\* The same statement for the archives in which no directory is empty.
TraversalOfFullArchive == NoEmptyDirectory(archive) => C1_FullTraversalCycle

----------------------------------------------------------------------------
(* C2 *)

\* C2: a step writes the cursor file only from an invocation whose post has
\* succeeded; a failed post ends the invocation with the file still holding
\* the index it attempted, and an invocation attempts the index the file holds.
C2_Step ==
    \A p \in DOMAIN run :
        /\ (run[p].pc = "save" /\ run'[p].pc # "save") => run[p].posted
        /\ cursorFile' # cursorFile =>
               \E q \in DOMAIN run : run[q].pc = "save" /\ run[q].posted /\ run'[q].pc # "save"
        /\ (run[p].pc = "post" /\ run'[p].pc # "save") =>
               /\ run'[p].pc = "failed" /\ run'[p].error = "post" /\ ~run'[p].posted
               /\ cursorFile' = cursorFile
               /\ cursorFile = <<run[p].currentIndex>>
        /\ (run[p].pc = "failed" /\ run[p].error = "post") => cursorFile' = cursorFile
        /\ (run[p].pc = "loadIndex" /\ run'[p].pc = "listSeries") =>
               <<run'[p].currentIndex>> = cursorFile

C2_SaveOnlyAfterPost == [][C2_Step]_vars

C2_Witness ==
    \E p \in DOMAIN run :
        /\ run[p].pc = "failed" /\ run[p].error = "post"
        /\ run[p].buffer # NoBuffer
        /\ cursorFile = <<run[p].currentIndex>>

----------------------------------------------------------------------------
(* C3 *)

ValidCursor == cursorFile # <<>> /\ ValidIndex(archive, cursorFile[1])

\* C3: on any static archive, a persisted cursor that is a valid index is
\* still a valid index after every step of every run.
C3_CursorStaysValid == [][ValidCursor => ValidCursor']_vars

----------------------------------------------------------------------------
(* C4 *)

\* C4: whenever loadImageAtIndex has returned, the index is a valid index and
\* each flag says whether its component is the last one of the live listing.
C4_FlagsAgreeWithCounts ==
    \A p \in DOMAIN run :
        Resolved(run[p]) =>
            LET i == run[p].currentIndex IN
            /\ ValidIndex(archive, i)
            /\ run[p].sequence.isLastPageInVolume
                   = (i.page = archive[i.series + 1][i.volume + 1] - 1)
            /\ run[p].sequence.isLastVolumeInSeries
                   = (i.volume = Len(archive[i.series + 1]) - 1)
            /\ run[p].sequence.isLastSeries = (i.series = Len(archive) - 1)

C4_Witness ==
    \E p \in DOMAIN run :
        /\ run[p].pc = "post"
        /\ run[p].sequence = SequenceMetadata(TRUE, FALSE, FALSE)
        /\ run[p].currentIndex.page > 0

----------------------------------------------------------------------------
(* C5 *)

\* the errors a run can end with before the bounds check of the level,
\* and the error of that check
ErrorsUpTo(level) ==
    CASE level = "series" -> {"read series paths", "series out of bounds"}
      [] level = "volume" -> {"read series paths", "read volume paths", "volume out of bounds"}
      [] level = "page" -> {"read series paths", "read volume paths", "read image paths",
                            "page out of bounds"}

PositionsUpTo(level) ==
    CASE level = "series" -> {"listSeries", "failed"}
      [] level = "volume" -> {"listSeries", "listVolumes", "failed"}
      [] level = "page" -> {"listSeries", "listVolumes", "listImages", "failed"}

\* C5: a run whose cursor has a component >= the live count never gets past
\* the bounds check of the outermost such level: it ends with that level's
\* out-of-bounds error (or with a directory that does not list, before the
\* check), with no image loaded, no post made and the cursor file unchanged.
C5_OutOfBoundsFails ==
    \A p \in DOMAIN run :
        LET r == run[p]
            level == OutOfBoundsLevel(archive, r.currentIndex)
        IN  (HasIndex(r) /\ level # "") =>
                /\ r.pc \in PositionsUpTo(level)
                /\ r.pc = "failed" => r.error \in ErrorsUpTo(level)
                /\ r.source = NoBuffer /\ r.buffer = NoBuffer
                /\ ~r.posted
                /\ cursorFile = <<r.currentIndex>>

C5_Witness ==
    \E p \in DOMAIN run :
        /\ run[p].pc = "failed" /\ run[p].error = "volume out of bounds"
        /\ run[p].currentIndex.page >= MaxPages
        /\ cursorFile = <<run[p].currentIndex>>

----------------------------------------------------------------------------
(* C6 to C9: makeNextIndex *)

\* C6: with isLastPageInVolume false the result is {series, volume, page+1},
\* whatever the other two flags.
C6_NextPage ==
    (fn.result # <<>> /\ ~fn.sequence.isLastPageInVolume) =>
        fn.result[1] = ArchiveIndex(fn.index.series, fn.index.volume, fn.index.page + 1)

C6_Witness ==
    /\ fn.result # <<>>
    /\ fn.sequence = SequenceMetadata(FALSE, TRUE, TRUE)
    /\ fn.index = ArchiveIndex(1, 2, 0)

\* C7: with flags {true, false, false} the result is {s, v+1, 0}.
C7_VolumeCarry ==
    (fn.result # <<>> /\ fn.sequence = SequenceMetadata(TRUE, FALSE, FALSE)) =>
        fn.result[1] = ArchiveIndex(fn.index.series, fn.index.volume + 1, 0)

C7_Witness ==
    /\ fn.result # <<>>
    /\ fn.sequence = SequenceMetadata(TRUE, FALSE, FALSE)
    /\ fn.index = ArchiveIndex(1, 0, 2)

\* C8: with flags {true, true, false} the result is {s+1, 0, 0}.
C8_SeriesCarry ==
    (fn.result # <<>> /\ fn.sequence = SequenceMetadata(TRUE, TRUE, FALSE)) =>
        fn.result[1] = ArchiveIndex(fn.index.series + 1, 0, 0)

C8_Witness ==
    /\ fn.result # <<>>
    /\ fn.sequence = SequenceMetadata(TRUE, TRUE, FALSE)
    /\ fn.index = ArchiveIndex(0, 1, 2)

\* C9: with all three flags true the result is {0, 0, 0} for every index.
C9_FullWraparound ==
    (fn.result # <<>> /\ fn.sequence = SequenceMetadata(TRUE, TRUE, TRUE)) =>
        fn.result[1] = ZeroIndex

C9_Witness ==
    /\ fn.result # <<>>
    /\ fn.sequence = SequenceMetadata(TRUE, TRUE, TRUE)
    /\ fn.index = ArchiveIndex(2, 1, 1)

----------------------------------------------------------------------------
(* C10 *)

\* C10: when the decoded source is at most MAX_SIZE bytes, the loop of
\* scaleImageIfNeeded is never entered and the buffer handed on is the source.
C10_FittingSourceUnchanged ==
    \A p \in DOMAIN run :
        (run[p].source # NoBuffer /\ run[p].source.size <= 976 * 1024) =>
            /\ run[p].pc # "encode"
            /\ run[p].buffer = run[p].source
            /\ run[p].resizeFactor = 0 /\ run[p].jpgQuality = 0

C10_Witness ==
    \E p \in DOMAIN run :
        /\ run[p].pc = "post"
        /\ run[p].source = Buffer("source", 976 * 1024)
        /\ run[p].buffer = run[p].source

----------------------------------------------------------------------------
(* C11 *)

\* C11: with the default configuration the degrade loop re-encodes at most
\* 28 times before it stops, for an input none of whose re-encodes fits too.
C11_AtMost28Iterations ==
    \A p \in DOMAIN run : env = DefaultEnv => run[p].iterations <= 28

\* C11, amended: with the default configuration the degrade loop re-encodes
\* at most 29 times before it stops: 19 times at quality 89 with the scale
\* going from 0.9 to 0.18, then 10 times at scale 0.18 with the quality going
\* from 85 to 49.
C11_AtMost29Iterations ==
    \A p \in DOMAIN run :
        env = DefaultEnv =>
            /\ run[p].iterations <= 29
            /\ run[p].pc = "encode" => run[p].iterations <= 28
            /\ run[p].pc = "encode" =>
                   run[p].iterations = (resizeFactorStart - run[p].resizeFactor) \div 4
                                       + (jpgQualityDefault - run[p].jpgQuality) \div 4

C11_Witness ==
    \E p \in DOMAIN run :
        /\ env = DefaultEnv
        /\ run[p].pc = "post"
        /\ run[p].iterations = 29
        /\ run[p].buffer.origin = "jpeg" /\ run[p].buffer.size > 976 * 1024
        /\ run[p].resizeFactor = 18 /\ run[p].jpgQuality = 49

----------------------------------------------------------------------------
(* C12 *)

\* C12: whatever RESIZE_STEP and JPG_QUALITY are configured, a degrade loop
\* that has been entered stops (a ceiling on its passes ends it even where
\* the configured values lower neither scale nor quality).
C12_DegradeLoopStops ==
    \A p \in {1} : (run[p].pc = "encode") ~> (run[p].pc # "encode")

\* The same for the configurations with a positive resize step.
DegradeLoopStopsForPositiveStep ==
    \A p \in {1} : (run[p].pc = "encode" /\ env.resizeStep > 0) ~> (run[p].pc # "encode")

----------------------------------------------------------------------------
(* C13 *)

\* C13: a buffer larger than MAX_SIZE comes out of scaleImageIfNeeded only
\* from a last re-encode at scale <= 0.2 and quality <= 50; no error is raised
\* for it: the run goes on to post it and to save the advanced cursor, and
\* ends early only if the post or the save itself fails.
C13_BudgetUnmetOnlyAtFloors ==
    \A p \in DOMAIN run :
        LET r == run[p] IN
        (r.buffer # NoBuffer /\ r.buffer.size > 976 * 1024) =>
            /\ r.buffer.origin = "jpeg"
            /\ r.resizeFactor <= 20 /\ r.jpgQuality <= 50
            /\ r.pc \in {"post", "save", "done", "failed"}
            /\ r.pc = "failed" => r.error \in {"post", "cursor save"}
            /\ r.pc \in {"save", "done"} => r.posted
            /\ r.pc = "done" => cursorFile = <<makeNextIndex(r.currentIndex, r.sequence)>>

C13_Witness ==
    \E p \in DOMAIN run :
        /\ run[p].pc = "done" /\ run[p].posted
        /\ run[p].buffer = Buffer("jpeg", 976 * 1024 + 1)
        /\ run[p].currentIndex = ZeroIndex
        /\ cursorFile = <<ArchiveIndex(0, 0, 1)>>

----------------------------------------------------------------------------
(* C14 *)

\* C14: a cursor file that is missing, unreadable or not a record of three
\* non-negative integers ends the process in loadArchiveIndex: no index is
\* returned to main, nothing is resolved or posted and the file is not written.
C14_CursorLoadFailureIsFatal ==
    \A p \in DOMAIN run :
        LET r == run[p] IN
        /\ HasIndex(r) =>
               r.currentIndex.series >= 0 /\ r.currentIndex.volume >= 0 /\ r.currentIndex.page >= 0
        /\ (r.pc = "failed" /\ r.error = "cursor load") =>
               /\ r.currentIndex = ZeroIndex /\ r.seriesPaths = <<>>
               /\ r.buffer = NoBuffer /\ ~r.posted

\* The part of it that is about a file that cannot be read or parsed at all.
UnreadableCursorIsFatal ==
    \A p \in DOMAIN run :
        LET r == run[p] IN
        /\ (cursorFile = <<>> /\ r.pc \notin {"login", "loadIndex", "save", "done"}) =>
               r.pc = "failed" /\ r.error \in {"login", "cursor load", "cursor save"}
        /\ (r.pc = "failed" /\ r.error = "cursor load") =>
               /\ cursorFile = <<>>
               /\ r.seriesPaths = <<>> /\ r.buffer = NoBuffer /\ ~r.posted

----------------------------------------------------------------------------
(* C15 *)

\* C15: a run in which one of the three directory listings fails, or the
\* image has no dimensions, ends there: nothing is posted and the cursor file
\* still holds the index the run loaded.
C15_ListingFailureAborts ==
    \A p \in DOMAIN run :
        LET r == run[p] IN
        r.error \in {"read series paths", "read volume paths", "read image paths",
                     "image dimensions"} =>
            /\ r.pc = "failed"
            /\ ~r.posted /\ r.buffer = NoBuffer
            /\ cursorFile = <<r.currentIndex>>

C15_Witness ==
    \E p \in DOMAIN run :
        /\ run[p].pc = "failed" /\ run[p].error = "image dimensions"
        /\ ValidIndex(archive, run[p].currentIndex)
        /\ run[p].currentIndex # ZeroIndex
        /\ cursorFile = <<run[p].currentIndex>>

----------------------------------------------------------------------------
(* C16 *)

\* C16: two invocations that overlap can both read the same cursor; when
\* they have, both post the page of that cursor, and when both have saved,
\* the file holds the index one position after it: the second write
\* repeats the first.
C16_DoublePostLastWriteWins ==
    \A p, q \in DOMAIN run :
        (p # q /\ HasIndex(run[p]) /\ HasIndex(run[q])
             /\ run[p].currentIndex = run[q].currentIndex) =>
            /\ (Resolved(run[p]) /\ Resolved(run[q])) => run[p].sequence = run[q].sequence
            /\ (run[p].pc = "done" /\ run[q].pc = "done") =>
                   /\ run[p].posted /\ run[q].posted
                   /\ cursorFile = <<makeNextIndex(run[p].currentIndex, run[p].sequence)>>

C16_Witness ==
    /\ trail = <<ZeroIndex>>
    /\ \A p \in DOMAIN run :
           run[p].pc = "done" /\ run[p].posted /\ run[p].currentIndex = ZeroIndex
    /\ cursorFile = <<ArchiveIndex(0, 0, 1)>>

----------------------------------------------------------------------------
(* C17 *)

\* the index k resolve-and-advance steps after index
RECURSIVE AfterSteps(_, _, _)
AfterSteps(tree, index, k) ==
    IF k = 0 THEN index
    ELSE AfterSteps(tree, makeNextIndex(index, loadImageAtIndex(tree, index).sequence), k - 1)

\* the pages the invocations have posted
PostedBy(runs) == {runs[p].currentIndex : p \in {q \in DOMAIN runs : runs[q].posted}}

\* the file has moved on from start past a page that no invocation has posted
Skipped(tree, start, file, runs) ==
    /\ file # <<>>
    /\ \E k \in 1..(TotalPages(tree) - 1) :
           /\ file[1] = AfterSteps(tree, start, k)
           /\ \E j \in 0..(k - 1) : AfterSteps(tree, start, j) \notin PostedBy(runs)

\* invocation p taken over its next await, the await succeeding and the page
\* fitting the budget as it is
Awaited(st, p) ==
    LET r == st.run[p]
        to(next) == [st EXCEPT !.run[p] = next]
    IN  CASE r.pc = "login" -> to(afterLogin(r, TRUE))
          [] r.pc = "loadIndex" -> to(loadArchiveIndex(r, st.cursorFile))
          [] r.pc = "listSeries" -> to(afterSeriesPaths(r, <<st.archive>>))
          [] r.pc = "listVolumes" ->
                 to(afterVolumePaths(r, Nth(r.seriesPaths, r.currentIndex.series)))
          [] r.pc = "listImages" ->
                 to(afterImagePaths(r, Nth(r.volumePaths, r.currentIndex.volume)))
          [] r.pc = "readImage" ->
                 to(LoadedLabeledImage(getImageDataAndAspect(r, <<MAX_SIZE>>, DefaultEnv)))
          [] r.pc = "post" -> to(afterPost(r, TRUE))
          [] r.pc = "save" ->
                 [st EXCEPT !.run[p] = afterSave(r, "written"),
                            !.cursorFile = saveArchiveIndex(r, st.cursorFile, "written")]
          [] OTHER -> st

\* every state the interleavings of two such invocations lead to from S
RECURSIVE Interleavings(_)
Interleavings(S) ==
    LET N == S \cup {Awaited(st, p) : st \in S, p \in {1, 2}}
    IN  IF N = S THEN S ELSE Interleavings(N)

\* C17: on a static archive there is an interleaving of two invocations
\* that leaves the persisted cursor past a page that neither has posted.
C17_SkipUnderOverlap ==
    \E st \in Interleavings({[archive |-> archive, cursorFile |-> trail,
                              run |-> [p \in {1, 2} |-> FreshRun]]}) :
        Skipped(archive, trail[1], st.cursorFile, st.run)

\* C17, amended: on a static archive no interleaving of two invocations
\* skips a page: the persisted cursor is the one they were started with or
\* the index after a page one of them has posted, and every page it has
\* moved past has been posted. Overlap repeats pages, it loses none.
C17_NoSkipUnderOverlap ==
    /\ ~Skipped(archive, trail[1], cursorFile, run)
    /\ cursorFile # <<>> =>
           \/ cursorFile = trail
           \/ \E p \in DOMAIN run :
                  /\ run[p].posted
                  /\ cursorFile = <<makeNextIndex(run[p].currentIndex, run[p].sequence)>>

C17_Witness ==
    /\ trail = <<ZeroIndex>>
    /\ cursorFile = <<ArchiveIndex(0, 1, 0)>>
    /\ \A p \in DOMAIN run : run[p].pc = "done"
    /\ PostedBy(run) = {ZeroIndex, ArchiveIndex(0, 0, 1)}

----------------------------------------------------------------------------
(* C18 *)

\* a pass after which the loop goes on lowers exactly one of scale and
\* quality; it lowers the quality only with the scale at 0.2 or less, and it
\* leaves the scale alone once the quality has been lowered
C18_Step ==
    \A p \in DOMAIN run :
        (run[p].pc = "encode" /\ run'[p].pc = "encode") =>
            /\ \/ run'[p].resizeFactor < run[p].resizeFactor /\ run'[p].jpgQuality = run[p].jpgQuality
               \/ run'[p].jpgQuality < run[p].jpgQuality /\ run'[p].resizeFactor = run[p].resizeFactor
            /\ run'[p].jpgQuality < run[p].jpgQuality => run[p].resizeFactor <= 20
            /\ run[p].jpgQuality < env.jpgQualityStart =>
                   run'[p].resizeFactor = run[p].resizeFactor

----------------------------------------------------------------------------
(* C19 *)

\* C19: whenever loadImageAtIndex has returned, however many series
\* directories there are, meta.seriesName is a defined name, the entry of
\* SERIES_NAMES at index.series, volumeNumber is volume + 1 and pageNumber is
\* page + 1.
C19_SeriesNameDefined ==
    \A p \in DOMAIN run :
        LET r == run[p] IN
        Resolved(r) =>
            /\ r.meta.seriesName # <<>>
            /\ r.meta.seriesName = Nth(SERIES_NAMES, r.currentIndex.series)
            /\ r.meta.volumeNumber = r.currentIndex.volume + 1
            /\ r.meta.pageNumber = r.currentIndex.page + 1

\* The same statement for the archives of at most as many series as
\* SERIES_NAMES has names.
SeriesNameDefinedWithinCatalog == Len(archive) <= Len(SERIES_NAMES) => C19_SeriesNameDefined

----------------------------------------------------------------------------
(* C20 *)

\* the outermost level at which index has a negative component, or ""
NegativeLevel(index) ==
    IF index.series < 0 THEN "series"
    ELSE IF index.volume < 0 THEN "volume"
    ELSE IF index.page < 0 THEN "page"
    ELSE ""

\* C20: a run whose cursor has a negative component never gets past the
\* bounds check of that level: it ends with an out-of-bounds error (or with
\* a directory that does not list, before the check), before any image is
\* read, with no post made and the cursor file unchanged.
C20_NegativeCursorOutOfBounds ==
    \A p \in DOMAIN run :
        LET r == run[p]
            level == NegativeLevel(r.currentIndex)
        IN  (HasIndex(r) /\ level # "") =>
                /\ r.pc \in PositionsUpTo(level)
                /\ r.pc = "failed" =>
                       r.error \in {"read series paths", "read volume paths", "read image paths",
                                    "series out of bounds", "volume out of bounds",
                                    "page out of bounds"}
                /\ r.source = NoBuffer /\ r.buffer = NoBuffer
                /\ ~r.posted
                /\ cursorFile = <<r.currentIndex>>

\* The part of it that is about how the run ends: no image decoded, no
\* post, the cursor file unchanged.
NegativeCursorEndsWithoutPost ==
    \A p \in DOMAIN run :
        LET r == run[p] IN
        (HasIndex(r) /\ NegativeLevel(r.currentIndex) # "") =>
            /\ r.pc \in {"listSeries", "listVolumes", "listImages", "readImage", "failed"}
            /\ r.source = NoBuffer /\ r.buffer = NoBuffer
            /\ ~r.posted
            /\ cursorFile = <<r.currentIndex>>

====
